---- MODULE Spec2Model ----
(***************************************************************************)
(* A model of codespaces_os.py (DOPA OS): the shared output log, the       *)
(* persisted state, the command dispatcher handle_command_line and the     *)
(* front-ends that call it (HTTP request threads, the terminal loop).      *)
(*                                                                         *)
(* Strings are modelled at the level the program looks at them:            *)
(*   - a command line is the sequence of its whitespace-separated tokens   *)
(*     (what str.split() returns); the empty sequence is a line that is    *)
(*     empty after strip();                                                *)
(*   - a text is the sequence of its lines (what str.splitlines()          *)
(*     returns); the empty sequence is the empty string;                   *)
(*   - a line is a record [kind, arg]: which format string produced it and *)
(*     the tokens interpolated into it.                                    *)
(***************************************************************************)
EXTENDS Integers, Sequences, FiniteSets, TLC

\* ------------------------------------------------------------------ bounds

\* OUTPUT_MAX_LINES is 2000 in the source (line 31); the model scales the
\* capacity down so that appends past the capacity happen within the bounds.
OUTPUT_MAX_LINES == 3
\* HTTP request threads alive at the same time (ThreadingMixIn: one per request).
NumWeb == 2
\* push_output calls one run of the log specification makes.
MaxCalls == 3
\* Command lines the front-ends read in one run of the system specification.
MaxDispatch == 2
\* Polls (GET /pollseq, GET /output) the polling client makes.
MaxPolls == 3

\* ----------------------------------------------------------------- threads

NoThread == -1
\* The main thread, which runs the terminal loop (main, line 803).
Term == 0
\* The HTTP request threads.
Web == 1 .. NumWeb
\* The background job threads (cmd_updatesim, line 436): the job started by
\* the n-th command line runs in thread NumWeb + n.
Jobs == NumWeb + 1 .. NumWeb + MaxDispatch
Threads == {Term} \cup Web \cup Jobs

VARIABLES
    output_lines,   \* the log: a sequence of entries [line, call, idx]
    output_lock,    \* the thread holding output_lock, or NoThread
    pc,             \* pc[t]: where thread t is
    text,           \* text[t]: the argument of t's push_output call
    i,              \* i[t]: the index of push_output's for loop
    ret,            \* ret[t]: where t continues once push_output returns
    callid,         \* callid[t]: ghost, the number of t's push_output call
    seq0,           \* seq0[t]: ghost, len(output_lines) when t took the lock
    calls,          \* ghost: push_output calls that have taken the lock
    started,        \* push_output and clear calls started (log specification)
    poll_prev,      \* the polling client's previous observation
    poll_last,      \* the polling client's last observation
    npolls,         \* polls made
    state,          \* the in-memory state document
    state_lock,     \* the thread holding state_lock, or NoThread
    file,           \* the content of STATE_FILE on disk
    raw,            \* raw[t]: the line the front-end read (do_POST's cmd)
    aliases,        \* aliases[t]: handle_command_line's copy of the aliases
    parts,          \* parts[t]: handle_command_line's parts
    out,            \* out[t]: the result of the dispatch
    ui,             \* the terminal front-end running: curses, cli, fallback
    ndisp,          \* command lines read so far
    lines,          \* the command lines that reach the process in this run
    fs,             \* the workspace files the interactive commands wrote
    reqs,           \* ghost: reqs[n] records the n-th command line read
    rid,            \* ghost: rid[t] is the number of t's command line
    joblog          \* ghost: joblog[j] holds the lines job thread j appended

vars == <<output_lines, output_lock, pc, text, i, ret, callid, seq0, calls,
          started, poll_prev, poll_last, npolls, state, state_lock, file,
          raw, aliases, parts, out, ui, ndisp, lines, fs, reqs, rid,
          joblog>>

statevars == <<state, state_lock, file>>
dispvars == <<raw, aliases, parts, out>>
envvars == <<ui, ndisp, lines, fs>>
ghostvars == <<reqs, rid, joblog>>
sysvars == <<statevars, dispvars, envvars, ghostvars>>

logvars == <<output_lines, output_lock, calls>>
pushvars == <<text, i, ret, callid, seq0>>
pollvars == <<poll_prev, poll_last, npolls>>

\* ----------------------------------------------------------------- strings

\* A string is the sequence of its pieces: words, runs of whitespace (WS)
\* and quote characters (Q).
WS == " "
Q == "'"

\* str.split(): the non-whitespace pieces.
Split(s) == SelectSeq(s, LAMBDA p : p # WS)

\* " ".join(parts)
RECURSIVE Join(_)
Join(ps) ==
    IF Len(ps) <= 1 THEN ps
    ELSE <<ps[1], WS>> \o Join(Tail(ps))

\* str.strip(chars): the pieces of `chars` are dropped from both ends.
RECURSIVE LStrip(_, _)
LStrip(s, chars) ==
    IF s # <<>> /\ s[1] \in chars THEN LStrip(Tail(s), chars) ELSE s

RECURSIVE RStrip(_, _)
RStrip(s, chars) ==
    IF s # <<>> /\ s[Len(s)] \in chars
    THEN RStrip(SubSeq(s, 1, Len(s) - 1), chars)
    ELSE s

Strip(s, chars) == RStrip(LStrip(s, chars), chars)

\* str.lower() of a word.
Lower(w) ==
    CASE w = "CLEAR" -> "clear"
      [] w = "A" -> "a"
      [] OTHER -> w

\* A value that is no string: the JSON number 7, as data.get("cmd", "")
\* returns it for the body {"cmd": 7}.
NotAString == <<"json:7">>

\* ------------------------------------------------------------------- lines

Ln(k, a) == [kind |-> k, arg |-> a]

\* The polling client has seen nothing yet.
NoObs == [seen |-> FALSE, seq |-> 0, txt |-> <<>>, path |-> "none"]

\* ------------------------------------------------------------ the output log

\* get_output_text: the retained lines, in order.
get_output_text == [n \in 1 .. Len(output_lines) |-> output_lines[n].line]

\* get_output_seq: len(output_lines).
get_output_seq == Len(output_lines)

\* `with output_lock:` can be entered.
OutputLockIgnored == TRUE
OutputLockFree == output_lock = NoThread

\* output_lines[:OUTPUT_MAX_LINES]
FirstLines(s) ==
    IF Len(s) > OUTPUT_MAX_LINES THEN SubSeq(s, 1, OUTPUT_MAX_LINES) ELSE s

\* output_lines[-OUTPUT_MAX_LINES:]
LastLines(s) ==
    IF Len(s) > OUTPUT_MAX_LINES
    THEN SubSeq(s, Len(s) - OUTPUT_MAX_LINES + 1, Len(s))
    ELSE s

\* A thread at `from` calls push_output(txt) and continues at `to`.
CallPush(t, txt, to) ==
    /\ pc' = [pc EXCEPT ![t] = "push_output"]
    /\ text' = [text EXCEPT ![t] = txt]
    /\ ret' = [ret EXCEPT ![t] = to]
    /\ i' = [i EXCEPT ![t] = 1]
    /\ UNCHANGED <<callid, seq0>>

\* push_output, line 67: the lock is taken.
PushAcquire(t) ==
    /\ pc[t] = "push_output"
    /\ OutputLockFree
    /\ output_lock' = t
    /\ calls' = calls + 1
    /\ callid' = [callid EXCEPT ![t] = calls + 1]
    /\ seq0' = [seq0 EXCEPT ![t] = Len(output_lines)]
    /\ pc' = [pc EXCEPT ![t] = "push_loop"]
    /\ UNCHANGED <<output_lines, text, i, ret, started, pollvars>>
    /\ UNCHANGED sysvars

\* The for loop with output_lines.insert(0, line) for the append.
PushLineFront(t) ==
    /\ pc[t] = "push_loop"
    /\ i[t] <= Len(text[t])
    /\ output_lines' =
           <<[line |-> text[t][i[t]], call |-> callid[t], idx |-> i[t]]>>
               \o output_lines
    /\ i' = [i EXCEPT ![t] = i[t] + 1]
    /\ joblog' = [joblog EXCEPT ![t] =
                      IF t \in Jobs THEN Append(@, text[t][i[t]]) ELSE @]
    /\ UNCHANGED <<output_lock, calls, pc, text, ret, callid, seq0, started,
                   pollvars>>
    /\ UNCHANGED <<statevars, dispvars, envvars, reqs, rid>>

\* push_output, lines 68-69: one iteration of the for loop.
PushLine(t) ==
    /\ pc[t] = "push_loop"
    /\ i[t] <= Len(text[t])
    /\ output_lines' = Append(output_lines,
           [line |-> text[t][i[t]], call |-> callid[t], idx |-> i[t]])
    /\ i' = [i EXCEPT ![t] = i[t] + 1]
    /\ joblog' = [joblog EXCEPT ![t] =
                      IF t \in Jobs THEN Append(@, text[t][i[t]]) ELSE @]
    /\ UNCHANGED <<output_lock, calls, pc, text, ret, callid, seq0, started,
                   pollvars>>
    /\ UNCHANGED <<statevars, dispvars, envvars, reqs, rid>>

\* push_output, lines 70-71: the trim, and the lock is released.
PushTrim(t) ==
    /\ pc[t] = "push_loop"
    /\ i[t] > Len(text[t])
    /\ output_lines' = LastLines(output_lines)
    /\ output_lock' = NoThread
    /\ pc' = [pc EXCEPT ![t] = ret[t]]
    /\ UNCHANGED <<calls, text, i, ret, callid, seq0, started, pollvars>>
    /\ UNCHANGED sysvars

\* cmd_clear, line 398: the lock is taken.
ClearAcquire(t) ==
    /\ pc[t] = "cmd_clear"
    /\ OutputLockFree
    /\ output_lock' = t
    /\ pc' = [pc EXCEPT ![t] = "clear_locked"]
    /\ UNCHANGED <<output_lines, calls, pushvars, started, pollvars>>
    /\ UNCHANGED sysvars

\* A poll: get_output_seq (GET /pollseq) and get_output_text (GET /output),
\* each a read under output_lock, observed at one instant.
Poll ==
    /\ npolls < MaxPolls
    /\ OutputLockFree
    /\ poll_prev' = poll_last
    /\ poll_last' = [seen |-> TRUE, seq |-> get_output_seq,
                     txt |-> get_output_text, path |-> "/pollseq"]
    /\ npolls' = npolls + 1
    /\ UNCHANGED <<logvars, pc, pushvars, started>>
    /\ UNCHANGED sysvars

\* GET /status: do_GET knows /output and /pollseq only, any other path goes
\* to SimpleHTTPRequestHandler.do_GET (line 661), which looks for a file of
\* that name under STATIC_DIR and answers 404; no sequence value is read.
PollStatus ==
    /\ npolls < MaxPolls
    /\ poll_prev' = poll_last
    /\ poll_last' = [seen |-> FALSE, seq |-> 0, txt |-> <<>>, path |-> "/status"]
    /\ npolls' = npolls + 1
    /\ UNCHANGED <<logvars, pc, pushvars, started>>
    /\ UNCHANGED sysvars

\* ------------------------------------------------------------- state store

\* JSON values, as far as the program tells them apart: an object with its
\* members, a value that is no object (a number), and no value.
NoAliases == [n \in {} |-> <<>>]
JObject(m) == [type |-> "object", members |-> m]
JNumber == [type |-> "number", members |-> NoAliases]
JAbsent == [type |-> "absent", members |-> NoAliases]

\* The module-level `state`, lines 41-46.
DefaultState == [aliases |-> JObject(NoAliases), history |-> <<>>]

\* What STATE_FILE may hold when the process starts.
FileMissing == [kind |-> "missing", aliases |-> JAbsent]
\* not JSON
FileGarbage == [kind |-> "garbage", aliases |-> JAbsent]
\* JSON that is neither an object nor a list of pairs, such as 7
FileScalar == [kind |-> "scalar", aliases |-> JAbsent]
\* a JSON list of key/value pairs, such as [["aliases", 7]]
FilePairs(v) == [kind |-> "pairs", aliases |-> v]
\* a JSON object; v is its member "aliases"
FileObject(v) == [kind |-> "object", aliases |-> v]

\* json.dump(state, f), line 62. (The documents of the model show their
\* aliases; the history a document of the program holds is the empty list,
\* no statement of the program adds to state["history"].)
Dump(st) == FileObject(st.aliases)

\* The alias tables of the documents an earlier run may have saved.
Table(names, val) == [n \in names |-> val[n]]
Cyclic == [a |-> <<"b">>, b |-> <<"a">>]
SavedTables ==
    {NoAliases, Table({"a", "b"}, Cyclic), Table({"a"}, [a |-> <<>>]),
     Table({"a"}, [a |-> <<"write", WS, "f.txt">>])}

StateFiles ==
    {FileMissing, FileGarbage, FileScalar, FilePairs(JNumber),
     FileObject(JAbsent), FileObject(JNumber)}
        \cup {Dump([aliases |-> JObject(m)]) : m \in SavedTables}

\* load_state, lines 49-56: the state after it, given the file's content.
\* json.load raises on a missing or unparsable file and state.update raises
\* on a value that is neither a mapping nor a list of pairs; both are
\* swallowed, and state.update replaces the keys the document holds.
load_state(f, st) ==
    IF f.kind \in {"object", "pairs"} /\ f.aliases.type # "absent"
    THEN [st EXCEPT !.aliases = f.aliases]
    ELSE st

\* `with state_lock:` can be entered.
StateLockFree == state_lock = NoThread

\* -------------------------------------------------------------- dispatcher

\* The words of cmd_alias's argument that hold an "=", with what
\* raw.split("=", 1) makes of them.
HasEq(w) == w \in {"a=b", "b=a", "a=", "a='"}
EqName(w) == IF w = "b=a" THEN "b" ELSE "a"
EqVal(w) ==
    CASE w = "a=b" -> <<"b">>
      [] w = "b=a" -> <<"a">>
      [] w = "a=" -> <<>>
      [] w = "a='" -> <<Q>>
      [] OTHER -> <<>>

\* No file written yet.
NoFiles == [n \in {} |-> <<>>]

\* The files of the workspace that cat reads (safe_readfile, lines 95-103).
ReadFile(name) ==
    CASE name \in DOMAIN fs -> fs[name]
      [] name = "empty.txt" -> <<>>
      [] name = "exit.txt" -> <<Ln("__EXIT__", <<>>)>>
      [] OTHER -> <<Ln("Error:", <<"[Errno 2]", name>>)>>

\* The sentinel result, line 598.
EXIT == <<Ln("__EXIT__", <<>>)>>

\* The interactive commands of the terminal branch, lines 515-596.
Interactive == {"write", "append", "edit", "notes"}

\* The commands of COMMANDS, lines 452-486, that the model follows.
COMMANDS ==
    {"cat", "alias", "unalias", "history", "clear", "notify", "updatesim"}

\* Lines 508-511: the alias expansion.
Expand1(al, ps) ==
    IF ps # <<>> /\ ps[1] \in DOMAIN al
    THEN Split(al[ps[1]]
               \o (IF Len(ps) > 1 THEN <<WS>> \o Join(Tail(ps)) ELSE <<>>))
    ELSE ps

ExpandAgain(al, ps) == Expand1(al, Expand1(al, ps))
Expand(al, ps) == Expand1(al, ps)

\* cmd_alias, lines 372-376: the name and the value it stores.
AliasName(args) == EqName(args[1])
AliasVal(args) ==
    Strip(Strip(EqVal(args[1])
                  \o (IF Len(args) > 1 THEN <<WS>> \o Join(Tail(args)) ELSE <<>>),
                {WS}),
          {Q})

\* The handlers that touch neither lock: their result.
\* cmd_cat, lines 150-152.
cmd_cat(args) ==
    IF args = <<>> THEN <<Ln("Usage: cat <file>", <<>>)>> ELSE ReadFile(args[1])

\* Line 611.
Unknown(cmd) == <<Ln("Unknown command:", <<cmd>>)>>

\* Where handle_command_line returns to, and where an exception that
\* escapes it arrives: the terminal loop, or do_POST.
Caller(t) == IF t = Term THEN "term_out" ELSE "post_out"
Raised(t) == IF t = Term THEN "term_raise" ELSE "post_raise"

\* `return result` from handle_command_line.
Return(t, result) ==
    /\ out' = [out EXCEPT ![t] = result]
    /\ pc' = [pc EXCEPT ![t] = Caller(t)]

\* handle_command_line, lines 502-505. raw.strip() raises AttributeError
\* on a value that is no string; nothing catches it.
HclEnter(t) ==
    /\ pc[t] = "handle_command_line"
    /\ LET r == Strip(raw[t], {WS}) IN
           IF raw[t] = NotAString
           THEN /\ pc' = [pc EXCEPT ![t] = Raised(t)]
                /\ UNCHANGED <<parts, out>>
           ELSE IF r = <<>>
           THEN Return(t, <<>>) /\ UNCHANGED parts
           ELSE /\ parts' = [parts EXCEPT ![t] = Split(r)]
                /\ pc' = [pc EXCEPT ![t] = "hcl_lock"]
                /\ UNCHANGED out
    /\ UNCHANGED <<logvars, pushvars, pollvars, statevars, raw, aliases,
                   envvars, ghostvars, started>>

\* Line 506: the state lock is taken.
HclLock(t) ==
    /\ pc[t] = "hcl_lock"
    /\ StateLockFree
    /\ state_lock' = t
    /\ pc' = [pc EXCEPT ![t] = "hcl_copy"]
    /\ UNCHANGED <<logvars, pushvars, pollvars, state, file, dispvars,
                   envvars, ghostvars, started>>

\* Lines 601-611 and the handlers' first lines, for the command line ps:
\* a handler that takes no lock returns its result, the others are entered.
Dispatch(t, ps) ==
    LET cmd == Lower(ps[1])
        args == Tail(ps)
        Enter == /\ pc' = [pc EXCEPT ![t] = "cmd_" \o cmd]
                 /\ ret' = [ret EXCEPT ![t] = Caller(t)]
                 /\ UNCHANGED out
        Result(r) == Return(t, r) /\ UNCHANGED ret
        Usage == <<Ln("Usage:", <<cmd, "<file>">>)>>
    IN  IF t = Term /\ cmd \in Interactive
        THEN IF cmd # "notes" /\ args = <<>>
             THEN Result(Usage)
             ELSE /\ pc' = [pc EXCEPT ![t] = "input_lines"]
                  /\ ret' = [ret EXCEPT ![t] = Caller(t)]
                  /\ UNCHANGED out
        ELSE IF t = Term /\ cmd = "exit" THEN Result(EXIT)
        ELSE IF cmd \notin COMMANDS THEN Result(Unknown(cmd))
        ELSE IF cmd = "cat" THEN Result(cmd_cat(args))
        ELSE IF cmd = "alias" /\ args = <<>>
            THEN Result(<<Ln("Usage: alias name='value'", <<>>)>>)
        ELSE IF cmd = "alias" /\ ~(\E k \in 1 .. Len(args) : HasEq(args[k]))
            THEN Result(<<Ln("Usage: alias name=value", <<>>)>>)
        ELSE IF cmd = "unalias" /\ args = <<>>
            THEN Result(<<Ln("Usage: unalias <name>", <<>>)>>)
        ELSE Enter

\* Lines 507-513: the aliases are copied, the lock is released, the line is
\* expanded and split. dict() of a value that is no mapping raises TypeError
\* and parts[0] of an empty list raises IndexError; neither is caught.
HclCopy(t) ==
    /\ pc[t] = "hcl_copy"
    /\ state_lock' = NoThread
    /\ IF state.aliases.type # "object"
       THEN /\ pc' = [pc EXCEPT ![t] = Raised(t)]
            /\ UNCHANGED <<aliases, parts, out, ret>>
       ELSE LET al == state.aliases.members
                ps == Expand(al, parts[t])
            IN  /\ aliases' = [aliases EXCEPT ![t] = al]
                /\ parts' = [parts EXCEPT ![t] = ps]
                /\ IF ps = <<>>
                   THEN /\ pc' = [pc EXCEPT ![t] = Raised(t)]
                        /\ UNCHANGED <<out, ret>>
                   ELSE Dispatch(t, ps)
    /\ UNCHANGED <<logvars, pollvars, text, i, callid, seq0, state, file,
                   raw, envvars, ghostvars, started>>

\* save_state is called; the caller continues at `to`.
CallSave(t, to) ==
    /\ pc' = [pc EXCEPT ![t] = "save_state"]
    /\ ret' = [ret EXCEPT ![t] = to]

\* save_state, line 60: the state lock is taken.
SaveLock(t) ==
    /\ pc[t] = "save_state"
    /\ StateLockFree
    /\ state_lock' = t
    /\ pc' = [pc EXCEPT ![t] = "save_write"]
    /\ UNCHANGED <<logvars, pushvars, pollvars, state, file, dispvars,
                   envvars, ghostvars, started>>

\* save_state with a push_output call inside its `with state_lock:` block.
SaveWriteLogs(t) ==
    /\ pc[t] = "save_write"
    /\ file' = Dump(state)
    /\ CallPush(t, <<Ln("State saved", <<>>)>>, ret[t])
    /\ UNCHANGED <<logvars, pollvars, state, state_lock, dispvars, envvars,
                   ghostvars, started>>

\* save_state, lines 61-62: the document is written, the lock released.
SaveWrite(t) ==
    /\ pc[t] = "save_write"
    /\ file' = Dump(state)
    /\ state_lock' = NoThread
    /\ pc' = [pc EXCEPT ![t] = ret[t]]
    /\ UNCHANGED <<logvars, pushvars, pollvars, state, dispvars, envvars,
                   ghostvars, started>>

\* cmd_alias, line 377: the state lock is taken.
AliasLock(t) ==
    /\ pc[t] = "cmd_alias"
    /\ StateLockFree
    /\ state_lock' = t
    /\ pc' = [pc EXCEPT ![t] = "alias_set"]
    /\ UNCHANGED <<logvars, pushvars, pollvars, state, file, dispvars,
                   envvars, ghostvars, started>>

\* cmd_alias, lines 378-379: the alias is stored, the lock released, and
\* save_state called.
AliasSet(t) ==
    /\ pc[t] = "alias_set"
    /\ LET args == Tail(parts[t]) IN
           state' = [state EXCEPT !.aliases.members =
                        [n \in DOMAIN @ \cup {AliasName(args)} |->
                            IF n = AliasName(args) THEN AliasVal(args) ELSE @[n]]]
    /\ state_lock' = NoThread
    /\ CallSave(t, "alias_saved")
    /\ UNCHANGED <<logvars, pollvars, text, i, callid, seq0, file, dispvars,
                   envvars, ghostvars, started>>

\* cmd_alias, line 380.
AliasReturn(t) ==
    /\ pc[t] = "alias_saved"
    /\ LET args == Tail(parts[t]) IN
           Return(t, <<Ln("Alias set:", <<AliasName(args), "->">> \o AliasVal(args))>>)
    /\ UNCHANGED <<logvars, pushvars, pollvars, statevars, raw, aliases,
                   parts, envvars, ghostvars, started>>

\* cmd_unalias, line 385: the state lock is taken.
UnaliasLock(t) ==
    /\ pc[t] = "cmd_unalias"
    /\ StateLockFree
    /\ state_lock' = t
    /\ pc' = [pc EXCEPT ![t] = "unalias_locked"]
    /\ UNCHANGED <<logvars, pushvars, pollvars, state, file, dispvars,
                   envvars, ghostvars, started>>

\* cmd_unalias, lines 386-390. A name that is found is deleted and
\* save_state is called inside the `with state_lock:` block, the lock still
\* held; a name that is not found leaves the block.
UnaliasLocked(t) ==
    /\ pc[t] = "unalias_locked"
    /\ LET name == parts[t][2] IN
           IF name \in DOMAIN state.aliases.members
           THEN /\ state' = [state EXCEPT !.aliases.members =
                                [n \in DOMAIN @ \ {name} |-> @[n]]]
                /\ CallSave(t, "unalias_saved")
                /\ UNCHANGED <<state_lock, out>>
           ELSE /\ state_lock' = NoThread
                /\ Return(t, <<Ln("Alias not found", <<>>)>>)
                /\ UNCHANGED <<state, ret>>
    /\ UNCHANGED <<logvars, pollvars, text, i, callid, seq0, file, raw,
                   aliases, parts, envvars, ghostvars, started>>

\* The number of entries cmd_history shows, line 394.
HISTORY_SHOWN == 200

\* h[-HISTORY_SHOWN:]
LastShown(h) ==
    IF Len(h) > HISTORY_SHOWN
    THEN SubSeq(h, Len(h) - HISTORY_SHOWN + 1, Len(h))
    ELSE h

\* cmd_history, line 393: the state lock is taken.
HistoryLock(t) ==
    /\ pc[t] = "cmd_history"
    /\ StateLockFree
    /\ state_lock' = t
    /\ pc' = [pc EXCEPT ![t] = "history_locked"]
    /\ UNCHANGED <<logvars, pushvars, pollvars, state, file, dispvars,
                   envvars, ghostvars, started>>

\* cmd_history, line 394: the last entries, one per line, or "(empty)".
HistoryReturn(t) ==
    /\ pc[t] = "history_locked"
    /\ state_lock' = NoThread
    /\ LET h == LastShown(state.history) IN
           Return(t, IF h = <<>>
                     THEN <<Ln("(empty)", <<>>)>>
                     ELSE [n \in 1 .. Len(h) |-> Ln("", h[n])])
    /\ UNCHANGED <<logvars, pushvars, pollvars, state, file, raw, aliases,
                   parts, envvars, ghostvars, started>>

\* cmd_clear, lines 399-400.
ClearDo(t) ==
    /\ pc[t] = "clear_locked"
    /\ output_lines' = <<>>
    /\ output_lock' = NoThread
    /\ out' = [out EXCEPT ![t] = <<>>]
    /\ pc' = [pc EXCEPT ![t] = ret[t]]
    /\ UNCHANGED <<calls, pushvars, pollvars, statevars, raw, aliases, parts,
                   envvars, ghostvars, started>>

\* cmd_notify, lines 420-424.
NotifyPush(t) ==
    /\ pc[t] = "cmd_notify"
    /\ LET args == Tail(parts[t]) IN
           IF args = <<>>
           THEN /\ Return(t, <<Ln("Usage: notify <message>", <<>>)>>)
                /\ UNCHANGED pushvars
           ELSE /\ CallPush(t, <<Ln("[NOTIFY]", Join(args))>>, "notify_pushed")
                /\ UNCHANGED out
    /\ UNCHANGED <<logvars, pollvars, statevars, raw, aliases, parts, envvars,
                   ghostvars, started>>

NotifyReturn(t) ==
    /\ pc[t] = "notify_pushed"
    /\ Return(t, <<Ln("Notified", <<>>)>>)
    /\ UNCHANGED <<logvars, pushvars, pollvars, statevars, raw, aliases,
                   parts, envvars, ghostvars, started>>

\* The thread that runs the job of t's command line.
JobOf(t) == NumWeb + rid[t]

\* cmd_updatesim, lines 427-438: the runner thread is started and the
\* acknowledgment returned.
UpdatesimStart(t) ==
    /\ pc[t] = "cmd_updatesim"
    /\ LET args == Tail(parts[t]) IN
           IF args = <<>>
           THEN /\ Return(t, <<Ln("Usage: updatesim <pkg>", <<>>)>>)
                /\ UNCHANGED parts
           ELSE /\ pc' = [pc EXCEPT ![t] = Caller(t), ![JobOf(t)] = "runner"]
                /\ parts' = [parts EXCEPT ![JobOf(t)] = <<args[1]>>]
                /\ out' = [out EXCEPT ![t] =
                              <<Ln("Simulated update started:", <<args[1]>>)>>]
    /\ UNCHANGED <<logvars, pushvars, pollvars, statevars, raw, aliases,
                   envvars, ghostvars, started>>

\* runner, lines 431-435 (the sleeps between the pushes take no step).
RunnerStart(j) ==
    /\ pc[j] = "runner"
    /\ CallPush(j, <<Ln("Starting simulated update:", parts[j])>>, "runner_install")
    /\ UNCHANGED <<logvars, pollvars, sysvars, started>>

RunnerInstall(j) ==
    /\ pc[j] = "runner_install"
    /\ CallPush(j, <<Ln("Installing", parts[j])>>, "runner_finish")
    /\ UNCHANGED <<logvars, pollvars, sysvars, started>>

\* The last push with the text of the push before it.
RunnerFinishAgain(j) ==
    /\ pc[j] = "runner_finish"
    /\ CallPush(j, <<Ln("Installing", parts[j])>>, "runner_done")
    /\ UNCHANGED <<logvars, pollvars, sysvars, started>>

RunnerFinish(j) ==
    /\ pc[j] = "runner_finish"
    /\ CallPush(j, <<Ln("Finished updating", parts[j])>>, "runner_done")
    /\ UNCHANGED <<logvars, pollvars, sysvars, started>>

\* What the user types at input() until the line that ends the entry.
TypedTexts == {<<>>, <<Ln("typed", <<>>)>>}

\* The terminal branch, lines 516-596: write, append, edit and notes read
\* lines with input() until the closing line, write the file and return.
\* write and edit replace the file, append and notes add to it.
InteractiveInput(t) ==
    /\ pc[t] = "input_lines"
    /\ \E typed \in TypedTexts :
           LET cmd == Lower(parts[t][1])
               fn == IF cmd = "notes" THEN "notes.txt" ELSE parts[t][2]
               old == IF fn \in DOMAIN fs THEN fs[fn] ELSE <<>>
               new == IF cmd \in {"write", "edit"} THEN typed ELSE old \o typed
               done == CASE cmd = "write" -> Ln("Wrote", <<fn>>)
                         [] cmd = "append" -> Ln("Appended to", <<fn>>)
                         [] cmd = "edit" -> Ln("Saved", <<fn>>)
                         [] OTHER -> Ln("Saved to notes.txt", <<>>)
           IN  /\ fs' = [n \in DOMAIN fs \cup {fn} |-> IF n = fn THEN new ELSE fs[n]]
               /\ Return(t, <<done>>)
    /\ UNCHANGED <<logvars, pushvars, pollvars, statevars, raw, aliases,
                   parts, ui, ndisp, lines, ghostvars, started>>

\* ---------------------------------------------------------------- do_POST

\* The command lines the clients send and the user types, by run: a run
\* of the process sees the lines of one workload.
Workloads ==
    {{<<"a">>, <<"alias", WS, "a=">>},
     {<<"a">>, <<"alias", WS, "a='", WS, "'">>},
     {<<"alias", WS, "a=b">>, <<"alias", WS, "b=a">>},
     {<<"alias", WS, "a=b">>, <<"unalias", WS, "a">>},
     {<<>>, <<WS>>},
     {<<"runbg", WS, "1", WS, "done">>, <<"cat", WS, "empty.txt">>},
     {<<"notify", WS, "hi">>, <<"CLEAR">>},
     {<<"cat", WS, "exit.txt">>, <<"exit">>},
     {<<"edit", WS, "f.txt">>, <<"notes">>},
     {<<"append", WS, "f.txt">>, <<"write">>}}

\* The lines of a single client that sends one request after the other.
SeqLines ==
    {<<"a">>, <<"a", WS, "x">>,
     <<"alias", WS, "a=b">>, <<"alias", WS, "b=a">>,
     <<"alias", WS, "a=", WS, "cat", WS, "empty.txt">>,
     <<"runbg", WS, "1", WS, "done">>, <<"updatesim", WS, "pkg">>,
     <<"unalias", WS, "a">>, <<"history">>}

\* The lines sent to a process that starts from a state file: `a` and `A`.
StartLines == {<<"a">>, <<WS, "A">>}

\* The bodies of the POST /command requests: {"cmd": line}, or a body that
\* json.loads or data.get fails on (no body, no JSON, JSON that is no
\* object), or an object whose cmd is no string.
Bodies == {[json |-> TRUE, cmd |-> l] : l \in lines}
              \cup (IF <<>> \in lines
                    THEN {[json |-> FALSE, cmd |-> <<>>],
                          [json |-> TRUE, cmd |-> NotAString]}
                    ELSE {})

\* The n-th command line is read by thread t.
Record(t, line) ==
    /\ ndisp' = ndisp + 1
    /\ rid' = [rid EXCEPT ![t] = ndisp + 1]
    /\ reqs' = Append(reqs, [thread |-> t, raw |-> line, status |-> "running",
                             echo |-> 0, result |-> 0])
    /\ UNCHANGED joblog

\* do_POST, lines 625-632: the body is read and handle_command_line called.
\* The HTTP server thread is started after load_state (lines 799-801).
PostReceive(t) ==
    /\ pc[t] = "idle"
    /\ pc[Term] # "main"
    /\ ndisp < MaxDispatch
    /\ \E body \in Bodies :
           LET cmd == IF body.json THEN body.cmd ELSE <<>> IN
               /\ raw' = [raw EXCEPT ![t] = cmd]
               /\ Record(t, cmd)
    /\ pc' = [pc EXCEPT ![t] = "handle_command_line"]
    /\ UNCHANGED <<logvars, pushvars, pollvars, statevars, aliases, parts,
                   out, ui, lines, fs, started>>

\* do_POST, line 633: the echo.
PostEcho(t) ==
    /\ pc[t] = "post_out"
    /\ CallPush(t, <<Ln(">", raw[t])>>, "post_echoed")
    /\ UNCHANGED <<logvars, pollvars, sysvars, started>>

\* do_POST without the test of line 634: the result is pushed as it is.
PostResultPlain(t) ==
    /\ pc[t] = "post_echoed"
    /\ CallPush(t, out[t], "post_pushed")
    /\ reqs' = [reqs EXCEPT ![rid[t]].echo = callid[t]]
    /\ UNCHANGED <<logvars, pollvars, statevars, dispvars, envvars, rid, joblog,
                   started>>

\* do_POST, lines 634-638: the result, or the refusal to exit.
PostResult(t) ==
    /\ pc[t] = "post_echoed"
    /\ IF out[t] = EXIT
       THEN /\ CallPush(t, <<Ln("Exit requested (ignored from web).", <<>>)>>,
                        "post_pushed")
            /\ out' = [out EXCEPT ![t] = <<Ln("Exit is terminal-only.", <<>>)>>]
       ELSE /\ CallPush(t, out[t], "post_pushed")
            /\ UNCHANGED out
    /\ reqs' = [reqs EXCEPT ![rid[t]].echo = callid[t]]
    /\ UNCHANGED <<logvars, pollvars, statevars, raw, aliases, parts, envvars,
                   rid, joblog, started>>

\* do_POST, lines 639-643: get_output_seq and the response.
PostRespond(t) ==
    /\ pc[t] = "post_pushed"
    /\ OutputLockFree
    /\ reqs' = [reqs EXCEPT ![rid[t]].result = callid[t],
                            ![rid[t]].status = "done"]
    /\ pc' = [pc EXCEPT ![t] = "idle"]
    /\ UNCHANGED <<logvars, pushvars, pollvars, statevars, dispvars, envvars,
                   rid, joblog, started>>

\* An exception leaves do_POST: socketserver reports it and the request
\* thread ends; the server keeps accepting requests.
PostRaise(t) ==
    /\ pc[t] = "post_raise"
    /\ reqs' = [reqs EXCEPT ![rid[t]].status = "raised"]
    /\ pc' = [pc EXCEPT ![t] = "idle"]
    /\ UNCHANGED <<logvars, pushvars, pollvars, statevars, dispvars, envvars,
                   rid, joblog, started>>

\* --------------------------------------------- the log specification (4.1)

\* The texts handed to push_output: from no line to one line more than the
\* log retains.
LogTexts ==
    {[n \in 1 .. k |-> Ln("line", <<ToString(n)>>)] : k \in 0 .. OUTPUT_MAX_LINES + 1}

\* Any thread calls push_output(txt).
LogCallPush(t) ==
    /\ pc[t] = "idle"
    /\ started < MaxCalls
    /\ started' = started + 1
    /\ \E txt \in LogTexts : CallPush(t, txt, "idle")
    /\ UNCHANGED <<logvars, pollvars>>
    /\ UNCHANGED sysvars

\* Any thread dispatches `clear`: cmd_clear is entered.
LogCallClear(t) ==
    /\ pc[t] = "idle"
    /\ started < MaxCalls
    /\ started' = started + 1
    /\ pc' = [pc EXCEPT ![t] = "cmd_clear"]
    /\ ret' = [ret EXCEPT ![t] = "idle"]
    /\ UNCHANGED <<logvars, text, i, callid, seq0, pollvars>>
    /\ UNCHANGED sysvars

\* ------------------------------------------------- main, the terminal loop

\* main, line 799: load_state. Then the HTTP server thread is started and
\* run_terminal_shell entered. (The banner lines that boot_sequence and
\* start_http_server push before the first prompt are left out.)
MainLoad ==
    /\ pc[Term] = "main"
    /\ state' = load_state(file, state)
    /\ pc' = [pc EXCEPT ![Term] = "term_input"]
    /\ UNCHANGED <<logvars, pushvars, pollvars, state_lock, file, dispvars,
                   envvars, ghostvars, started>>

\* The loop reads a line: input() at lines 715 and 787, getstr at 763.
\* curses_main strips the line and skips an empty one (lines 769-770).
TermInput ==
    /\ pc[Term] = "term_input"
    /\ ndisp < MaxDispatch
    /\ \E line \in lines :
           LET r == IF ui = "curses" THEN Strip(line, {WS}) ELSE line IN
               /\ raw' = [raw EXCEPT ![Term] = r]
               /\ Record(Term, r)
               /\ pc' = [pc EXCEPT ![Term] =
                            IF ui = "curses" /\ r = <<>> THEN "term_input"
                            ELSE "handle_command_line"]
    /\ UNCHANGED <<logvars, pushvars, pollvars, statevars, aliases, parts,
                   out, ui, lines, fs, started>>

\* EOF or an interrupt at the prompt: lines 716-718, 764-765, 788-790.
TermInterrupt ==
    /\ pc[Term] = "term_input"
    /\ IF ui = "curses"
       THEN /\ pc' = [pc EXCEPT ![Term] = "main_finally"]
            /\ UNCHANGED pushvars
       ELSE CallPush(Term, <<Ln("Exiting.", <<>>)>>, "main_finally")
    /\ UNCHANGED <<logvars, pollvars, sysvars, started>>

\* handle_command_line has returned: lines 720-723, 772, 792-794.
TermOut ==
    /\ pc[Term] = "term_out"
    /\ IF ui = "curses" \/ out[Term] # EXIT
       THEN CallPush(Term, <<Ln(">", raw[Term])>>, "term_echoed")
       ELSE IF ui = "cli"
       THEN CallPush(Term, <<Ln("Exit requested. Shutting down.", <<>>)>>,
                     "main_finally")
       ELSE /\ pc' = [pc EXCEPT ![Term] = "main_finally"]
            /\ UNCHANGED pushvars
    /\ UNCHANGED <<logvars, pollvars, sysvars, started>>

\* The echo is pushed: lines 724, 773-776, 795.
TermEchoed ==
    /\ pc[Term] = "term_echoed"
    /\ IF out[Term] = EXIT
       THEN CallPush(Term, <<Ln("Exit requested. Shutting down.", <<>>)>>,
                     "main_finally")
       ELSE CallPush(Term, out[Term], "term_input")
    /\ UNCHANGED <<logvars, pollvars, sysvars, started>>

\* An exception leaves handle_command_line. It leaves curses_main and
\* curses.wrapper and is caught at line 782, which falls back to the CLI
\* loop; from a CLI loop it leaves run_terminal_shell.
TermRaise ==
    /\ pc[Term] = "term_raise"
    /\ IF ui = "curses"
       THEN /\ CallPush(Term, <<Ln("Error launching curses UI:", <<>>)>>,
                        "term_fallback")
            /\ ui' = "fallback"
       ELSE /\ pc' = [pc EXCEPT ![Term] = "main_finally"]
            /\ UNCHANGED <<pushvars, ui>>
    /\ UNCHANGED <<logvars, pollvars, statevars, dispvars, ndisp,
                   lines, fs, ghostvars, started>>

\* Line 784.
TermFallback ==
    /\ pc[Term] = "term_fallback"
    /\ CallPush(Term, <<Ln("Falling back to CLI.", <<>>)>>, "term_input")
    /\ UNCHANGED <<logvars, pollvars, sysvars, started>>

\* main, line 805: save_state.
MainFinally ==
    /\ pc[Term] = "main_finally"
    /\ CallSave(Term, "main_saved")
    /\ UNCHANGED <<logvars, pollvars, text, i, callid, seq0, sysvars, started>>

\* main, line 806.
MainSaved ==
    /\ pc[Term] = "main_saved"
    /\ CallPush(Term, <<Ln("DOPA OS shutting down...", <<>>)>>, "main_exit")
    /\ UNCHANGED <<logvars, pollvars, sysvars, started>>

\* main returns: the process exits and its daemon threads with it.
MainExit ==
    /\ pc[Term] = "main_exit"
    /\ pc' = [t \in Threads |-> "exited"]
    /\ UNCHANGED <<logvars, pushvars, pollvars, statevars, dispvars, ui,
                   ndisp, lines, fs, ghostvars, started>>

\* ------------------------------------------------------ the specifications

InitCommon ==
    /\ output_lines = <<>>
    /\ output_lock = NoThread
    /\ text = [t \in Threads |-> <<>>]
    /\ i = [t \in Threads |-> 1]
    /\ ret = [t \in Threads |-> "idle"]
    /\ callid = [t \in Threads |-> 0]
    /\ seq0 = [t \in Threads |-> 0]
    /\ calls = 0
    /\ started = 0
    /\ poll_prev = NoObs
    /\ poll_last = NoObs
    /\ npolls = 0
    /\ state = DefaultState
    /\ state_lock = NoThread
    /\ raw = [t \in Threads |-> <<>>]
    /\ aliases = [t \in Threads |-> NoAliases]
    /\ parts = [t \in Threads |-> <<>>]
    /\ out = [t \in Threads |-> <<>>]
    /\ ndisp = 0
    /\ fs = NoFiles
    /\ reqs = <<>>
    /\ rid = [t \in Threads |-> 0]
    /\ joblog = [t \in Threads |-> <<>>]

\* The process when main is entered: the module's globals as constructed,
\* the state file as an earlier run (or anything else) left it, and the
\* terminal front-end that the environment allows.
Init ==
    /\ InitCommon
    /\ pc = [t \in Threads |->
                IF t = Term THEN "main" ELSE IF t \in Web THEN "idle" ELSE "unborn"]
    /\ ui \in {"curses", "cli"}
    /\ \/ file \in StateFiles /\ lines = StartLines
       \/ file = FileMissing /\ lines \in Workloads

Step(t) ==
    \/ HclEnter(t)
    \/ HclLock(t)
    \/ HclCopy(t)
    \/ SaveLock(t)
    \/ SaveWrite(t)
    \/ AliasLock(t)
    \/ AliasSet(t)
    \/ AliasReturn(t)
    \/ UnaliasLock(t)
    \/ UnaliasLocked(t)
    \/ ClearAcquire(t)
    \/ ClearDo(t)
    \/ NotifyPush(t)
    \/ NotifyReturn(t)
    \/ PushAcquire(t)
    \/ PushLine(t)
    \/ PushTrim(t)

WebStep(t) ==
    \/ PostReceive(t)
    \/ PostEcho(t)
    \/ PostResult(t)
    \/ PostRespond(t)
    \/ PostRaise(t)

JobStep(j) ==
    \/ RunnerStart(j)
    \/ RunnerInstall(j)
    \/ RunnerFinish(j)

TermStep ==
    \/ MainLoad
    \/ TermInput
    \/ InteractiveInput(Term)
    \/ TermInterrupt
    \/ TermOut
    \/ TermEchoed
    \/ TermRaise
    \/ TermFallback
    \/ MainFinally
    \/ MainSaved
    \/ MainExit

Next ==
    \/ \E t \in Threads : Step(t)
    \/ \E t \in Web : WebStep(t)
    \/ TermStep

Spec == Init /\ [][Next]_vars

\* One client: the requests are sent one after the other and handled by
\* one request thread at a time, while the jobs they start run on.
SeqInit ==
    /\ InitCommon
    /\ pc = [t \in Threads |->
                IF t = Term THEN "main" ELSE IF t \in Web THEN "idle" ELSE "unborn"]
    /\ ui = "curses"
    /\ file \in {FileMissing} \cup {Dump([aliases |-> JObject(m)]) : m \in SavedTables}
    /\ lines = SeqLines

Client == 1

SeqStep ==
    \/ MainLoad
    \/ PostReceive(Client)
    \/ HclEnter(Client)
    \/ HclLock(Client)
    \/ HclCopy(Client)
    \/ AliasLock(Client)
    \/ AliasSet(Client)
    \/ SaveLock(Client)
    \/ SaveWrite(Client)
    \/ AliasReturn(Client)
    \/ UnaliasLock(Client)
    \/ UnaliasLocked(Client)
    \/ HistoryLock(Client)
    \/ HistoryReturn(Client)
    \/ UpdatesimStart(Client)
    \/ PostEcho(Client)
    \/ PostResult(Client)
    \/ PostRespond(Client)
    \/ \E t \in {Client} \cup Jobs : PushAcquire(t) \/ PushLine(t) \/ PushTrim(t)
    \/ \E j \in Jobs : JobStep(j)

SeqSpec == SeqInit /\ [][SeqStep]_vars

\* The threads are scheduled fairly: a step that a thread can take is taken.
\* The arrival of a request is not forced.
SeqFair ==
    /\ WF_vars(MainLoad)
    /\ WF_vars(HclEnter(Client) \/ HclLock(Client) \/ HclCopy(Client)
                 \/ AliasLock(Client) \/ AliasSet(Client) \/ SaveLock(Client)
                 \/ SaveWrite(Client) \/ AliasReturn(Client)
                 \/ UnaliasLock(Client) \/ UnaliasLocked(Client)
                 \/ HistoryLock(Client) \/ HistoryReturn(Client)
                 \/ UpdatesimStart(Client) \/ PostEcho(Client)
                 \/ PostResult(Client) \/ PostRespond(Client)
                 \/ PushAcquire(Client) \/ PushLine(Client) \/ PushTrim(Client))
    /\ \A j \in Jobs :
           WF_vars(JobStep(j) \/ PushAcquire(j) \/ PushLine(j) \/ PushTrim(j))

FairSeqSpec == SeqSpec /\ SeqFair

\* The log on its own: any thread calls push_output or cmd_clear.
LogInit ==
    /\ InitCommon
    /\ pc = [t \in Threads |-> IF t \in Jobs THEN "unborn" ELSE "idle"]
    /\ file = FileMissing
    /\ ui = "cli"
    /\ lines = {}

LogNext ==
    \/ \E t \in Threads : LogCallPush(t)
    \/ \E t \in Threads : LogCallClear(t)
    \/ \E t \in Threads : PushAcquire(t)
    \/ \E t \in Threads : PushLine(t)
    \/ \E t \in Threads : PushTrim(t)
    \/ \E t \in Threads : ClearAcquire(t)
    \/ \E t \in Threads : ClearDo(t)
    \/ Poll
    \/ PollStatus

LogSpec == LogInit /\ [][LogNext]_vars

\* ------------------------------------------------------- claims on the log

\* C1: the value get_output_seq returns never decreases from one poll to the
\* next, and a push_output call of k lines leaves it k higher than it was
\* when the call took the lock.
C1_SeqMonotoneAndCountsLines ==
    [][/\ (npolls' = npolls + 1 /\ poll_last.seen /\ poll_last'.seen)
              => poll_last'.seq >= poll_last.seq
       /\ \A t \in Threads :
              (pc[t] = "push_loop" /\ pc'[t] # "push_loop")
                  => Len(output_lines') = seq0[t] + Len(text[t])]_vars

\* C2: two polls that return the same sequence value return the same text.
C2_SameSeqSameText ==
    (poll_prev.seen /\ poll_last.seen /\ poll_prev.seq = poll_last.seq)
        => poll_prev.txt = poll_last.txt

\* C6: the lines of one push_output call lie in the log contiguously and in
\* the order submitted, and the calls lie in the order in which they took
\* output_lock.
C6_CallsContiguousInLockOrder ==
    \A p, q \in 1 .. Len(output_lines) :
        p < q =>
            /\ output_lines[p].call <= output_lines[q].call
            /\ output_lines[p].call = output_lines[q].call
                   => output_lines[q].idx - output_lines[p].idx = q - p

\* C6, its case: a call is in the middle of its loop, with lines of an
\* earlier call and one of its own in the log, while another thread waits
\* for the lock with a text of several lines.
C6_Witness ==
    \E t, u \in Threads :
        /\ t # u
        /\ pc[t] = "push_loop" /\ i[t] = 2 /\ Len(text[t]) >= 2
        /\ pc[u] = "push_output" /\ Len(text[u]) >= 2
        /\ \E p \in 1 .. Len(output_lines) : output_lines[p].call < callid[t]
        /\ \E p \in 1 .. Len(output_lines) : output_lines[p].call = callid[t]

\* C14: outside the log lock the log holds at most OUTPUT_MAX_LINES lines;
\* an append adds its line at the end, and the trim that ends a
\* push_output call keeps the most recent OUTPUT_MAX_LINES lines in their
\* order, whatever the number of lines the call carried.
C14_BoundedKeepsMostRecent ==
    /\ [](OutputLockFree => Len(output_lines) <= OUTPUT_MAX_LINES)
    /\ [][\A t \in Threads :
             /\ PushLine(t) =>
                    /\ Len(output_lines') = Len(output_lines) + 1
                    /\ \A n \in 1 .. Len(output_lines) :
                           output_lines'[n] = output_lines[n]
             /\ PushTrim(t) =>
                    LET old == Len(output_lines)
                        new == Len(output_lines')
                    IN  /\ new = IF old > OUTPUT_MAX_LINES
                                 THEN OUTPUT_MAX_LINES ELSE old
                        /\ \A n \in 1 .. new :
                               output_lines'[n] = output_lines[old - new + n]]_vars

\* C14, its case: one call carried more lines than the log retains and has
\* returned; its first line is gone, its last lines fill the log.
C14_Witness ==
    /\ OutputLockFree
    /\ Len(output_lines) = OUTPUT_MAX_LINES
    /\ output_lines[1].idx = 2
    /\ output_lines[OUTPUT_MAX_LINES].idx = OUTPUT_MAX_LINES + 1
    /\ output_lines[1].call = output_lines[OUTPUT_MAX_LINES].call

\* C16: a poll, GET /pollseq or GET /status, is answered with a document
\* that carries the sequence value.
C16_PollCarriesSeq ==
    poll_last.path \in {"/pollseq", "/status"} => poll_last.seen

\* ------------------------------------------------ claims on the dispatcher

\* The lock a thread is waiting to take, and the thread that holds a lock.
WaitsFor(t) ==
    IF pc[t] \in {"hcl_lock", "save_state", "cmd_alias", "cmd_unalias",
                 "cmd_history"}
    THEN "state_lock"
    ELSE IF pc[t] \in {"push_output", "cmd_clear", "post_pushed"}
    THEN "output_lock"
    ELSE "none"
Holder(l) == IF l = "state_lock" THEN state_lock ELSE output_lock

\* A thread waits for a lock whose holder is that thread itself, or waits in
\* turn for a lock that one of the two holds: the wait never ends.
WaitsForever(t) ==
    /\ WaitsFor(t) # "none"
    /\ LET h == Holder(WaitsFor(t)) IN
           /\ h # NoThread
           /\ \/ h = t
              \/ /\ WaitsFor(h) # "none"
                 /\ Holder(WaitsFor(h)) \in {t, h}

\* C3: a dispatch of alias or unalias leaves the state lock released: no
\* thread is ever left waiting for state_lock or output_lock without end.
C3_NoThreadWaitsForever == \A t \in Threads : ~WaitsForever(t)

\* C4: whatever the line (a string), the origin and the alias table, no
\* exception escapes handle_command_line.
C4_NoExceptionEscapes ==
    state.aliases.type = "object"
        => \A t \in Threads :
               raw[t] # NotAString => pc[t] \notin {"post_raise", "term_raise"}

\* The first word of the line that thread t read.
FirstWord(t) == Split(Strip(raw[t], {WS}))[1]

\* handle_command_line has returned to thread t, whose line started with an
\* alias of a text that is not blank.
ExpandedCase(t) ==
    /\ pc[t] = Caller(t)
    /\ Split(raw[t]) # <<>>
    /\ FirstWord(t) \in DOMAIN aliases[t]
    /\ Split(aliases[t][FirstWord(t)]) # <<>>

\* C5: the alias expansion is applied once. When the first word of the line
\* is an alias, the command that runs is the first word of that alias's
\* text, whether or not that word is an alias too: a word that is no
\* command yields the unknown-command result that names it.
C5_ExpansionAppliedOnce ==
    \A t \in Threads :
        ExpandedCase(t) =>
            LET w == Lower(Split(aliases[t][FirstWord(t)])[1]) IN
                /\ w \notin COMMANDS => out[t] = Unknown(w)
                /\ w = "cat" => out[t] = <<>>

\* C5, its case: the table is cyclic (a=b, b=a) and `a` was dispatched.
C5_Witness ==
    \E t \in Threads :
        /\ ExpandedCase(t)
        /\ FirstWord(t) = "a"
        /\ DOMAIN aliases[t] = {"a", "b"}
        /\ aliases[t]["a"] = <<"b">> /\ aliases[t]["b"] = <<"a">>
        /\ out[t] = Unknown("b")

\* The log entries that are echoes, and the log positions of a call's lines.
Echoes == {p \in 1 .. Len(output_lines) : output_lines[p].line.kind = ">"}
LinesOf(c) == {p \in 1 .. Len(output_lines) : output_lines[p].call = c}

\* Every command line so far came in through POST /command, none of them
\* was `clear`, all have been handled, and the log is below its capacity.
WebOnlyAllHandled ==
    /\ Len(reqs) >= 2
    /\ \A n \in 1 .. Len(reqs) :
           /\ reqs[n].thread \in Web
           /\ reqs[n].raw # NotAString
           /\ Split(reqs[n].raw) # <<>> => Lower(Split(reqs[n].raw)[1]) # "clear"
    /\ \A t \in Web : pc[t] = "idle"
    /\ pc[Term] = "term_input"
    /\ state.aliases.type = "object"
    /\ Len(output_lines) < OUTPUT_MAX_LINES

\* C7: after N commands dispatched through POST /command the log holds N
\* echo entries and N result entries, each dispatch's echo before its
\* result (a result of no line counts as an entry).
C7_OnePairPerDispatch ==
    WebOnlyAllHandled =>
        /\ Cardinality(Echoes) = Len(reqs)
        /\ \A n \in 1 .. Len(reqs) :
               \E p \in LinesOf(reqs[n].echo) :
                   /\ output_lines[p].line = Ln(">", reqs[n].raw)
                   /\ \A q \in LinesOf(reqs[n].result) : p < q

\* A line of the log that completes the job of `runbg <seconds> <message>`:
\* a line with the message that is neither the echo of the command nor the
\* dispatcher's answer to it.
CompletionLine(l, msg) ==
    /\ l.kind \notin {">", "Unknown command:"}
    /\ \E k \in 1 .. Len(l.arg) : l.arg[k] = msg

\* The n-th command line is `runbg <seconds> <message>` and was answered.
RunbgAnswered(n) ==
    /\ n <= Len(reqs)
    /\ Split(reqs[n].raw) # <<>>
    /\ Lower(Split(reqs[n].raw)[1]) = "runbg"
    /\ reqs[n].status = "done"

\* C8: `runbg <seconds> <message>` returns without waiting for the job, and
\* a completion line with the message eventually appears in the log.
C8_RunbgCompletes ==
    \A n \in 1 .. MaxDispatch :
        (pc[Client] = "handle_command_line" /\ rid[Client] = n
             /\ Split(raw[Client]) # <<>>
             /\ Lower(Split(raw[Client])[1]) = "runbg")
            ~> (/\ RunbgAnswered(n)
                /\ \E p \in 1 .. Len(output_lines) :
                       CompletionLine(output_lines[p].line, Split(reqs[n].raw)[3]))

\* The documents save_state writes: an object whose aliases are a table.
SavedDocument(f) == f.kind = "object" /\ f.aliases.type = "object"

\* C9: load_state leaves the state equal to the defaults or to the state
\* last saved, whatever the state file holds.
C9_LoadYieldsDefaultsOrSaved ==
    [][MainLoad =>
          \/ state' = DefaultState
          \/ /\ SavedDocument(file)
             /\ state' = [DefaultState EXCEPT !.aliases = file.aliases]]_vars

\* C10: a line that is empty after strip() leaves no entry in the log.
C10_EmptyLineLeavesNoEntry ==
    \A p \in 1 .. Len(output_lines) :
        output_lines[p].line.kind = ">"
            => Strip(output_lines[p].line.arg, {WS}) # <<>>

\* ------------------------------------------------- claims on the front-ends

\* C11: a web dispatch that yields the exit sentinel is answered with an
\* explanatory message in the log and in the response, and no step of a
\* request thread ends the process or the terminal loop.
C11_WebExitRefused ==
    [][\A t \in Web :
          /\ (PostResult(t) /\ out[t] = EXIT)
                 => /\ text'[t] = <<Ln("Exit requested (ignored from web).", <<>>)>>
                    /\ out'[t] = <<Ln("Exit is terminal-only.", <<>>)>>
                    /\ ret'[t] = "post_pushed"
          /\ (WebStep(t) \/ Step(t))
                 => /\ pc'[Term] = pc[Term]
                    /\ \A u \in Web : pc'[u] # "exited"]_vars

\* C11, its case: the refusal is in the log and the request is about to be
\* answered with the explanation.
C11_Witness ==
    \E t \in Web :
        /\ pc[t] = "post_pushed"
        /\ out[t] = <<Ln("Exit is terminal-only.", <<>>)>>
        /\ \E p \in 1 .. Len(output_lines) :
               /\ output_lines[p].call = callid[t]
               /\ output_lines[p].line = Ln("Exit requested (ignored from web).", <<>>)

\* C12: dispatched with origin web, directly or through an alias, write,
\* append, edit and notes read no line from the user and return one fixed
\* refusal, which is not the answer given to a command that does not exist.
C12_InteractiveRefusedOnWeb ==
    \A t \in Web :
        /\ pc[t] # "input_lines"
        /\ (pc[t] = "post_out" /\ parts[t] # <<>> /\ Lower(parts[t][1]) \in Interactive)
               => /\ out[t] \notin {Unknown(c) : c \in Interactive}
                  /\ \A u \in Web :
                         (pc[u] = "post_out" /\ parts[u] # <<>>
                              /\ Lower(parts[u][1]) \in Interactive)
                             => out[u] = out[t]

\* ------------------------------------------------ claims on the state store

\* Thread t has entered cmd_alias, or cmd_unalias with a name that is set.
Mutating(t) ==
    \/ pc[t] = "cmd_alias"
    \/ /\ pc[t] = "cmd_unalias"
       /\ state.aliases.type = "object"
       /\ parts[t][2] \in DOMAIN state.aliases.members

\* C13: every definition and every removal of an alias is followed by a
\* save: the command completes and the document in the state file is then
\* the in-memory state.
C13_MutationReachesDisk ==
    Mutating(Client) ~> (pc[Client] = "post_out" /\ file = Dump(state))

\* C15: a POST /command request whose body is absent, no JSON, no object,
\* or an object whose cmd is missing or no string, is handled as the empty
\* command and answered: its request thread does not fail.
C15_AnyBodyAnswered ==
    \A n \in 1 .. Len(reqs) :
        (reqs[n].thread \in Web /\ reqs[n].raw \in {<<>>, NotAString})
            => reqs[n].status # "raised"

\* The first token of the line thread t read is a string that is neither a
\* command (of the registry or of the terminal branch) nor an alias.
UnknownToken(t) ==
    /\ raw[t] # NotAString
    /\ Split(raw[t]) # <<>>
    /\ LET w == Split(raw[t])[1] IN
           /\ Lower(w) \notin COMMANDS
           /\ t = Term => Lower(w) \notin Interactive \cup {"exit"}
           /\ state.aliases.type = "object" => w \notin DOMAIN state.aliases.members

\* C17: the dispatch of a line whose first token matches no command raises
\* nothing and returns the unknown-command result that names the token.
C17_UnknownCommandAnswered ==
    \A t \in {Term} \cup Web :
        UnknownToken(t) =>
            /\ pc[t] \notin {"post_raise", "term_raise"}
            /\ pc[t] \in {"post_out", "term_out"}
                   => out[t] = Unknown(Lower(Split(raw[t])[1]))

\* ------------------------------------------------------ claims on the locks

\* The places where a handler is entered, and where a handler calls out to
\* do file I/O: save_state, the interactive commands' file write.
HandlerEntry == {"cmd_alias", "cmd_unalias", "cmd_history", "cmd_clear",
                 "cmd_notify", "cmd_updatesim", "input_lines"}
HandlerFileIO == {"save_state", "input_lines"}

\* C18: no lock is held across a handler: a thread enters a handler holding
\* neither state_lock nor output_lock, and a handler that goes on to file
\* I/O has released them.
C18_NoLockAcrossHandler ==
    \A t \in Threads :
        pc[t] \in HandlerEntry \cup HandlerFileIO
            => state_lock # t /\ output_lock # t

\* ------------------------------------------- claims on the order of the log

\* Every command line so far came in through POST /command, none of them
\* was `clear`, and no line has been evicted from the log.
WebOnlyNothingDropped ==
    /\ \A n \in 1 .. Len(reqs) :
           /\ reqs[n].thread \in Web
           /\ reqs[n].raw # NotAString
           /\ Split(reqs[n].raw) # <<>> => Lower(Split(reqs[n].raw)[1]) # "clear"
    /\ Len(output_lines) < OUTPUT_MAX_LINES

\* The echo of a notify command.
NotifyEcho(l) ==
    /\ l.kind = ">"
    /\ Split(l.arg) # <<>>
    /\ Lower(Split(l.arg)[1]) = "notify"

\* C19: a line that a handler pushes itself follows the echo of its
\* command: a [NOTIFY] line in the log has the echo of a notify command
\* before it.
C19_HandlerOutputFollowsEcho ==
    WebOnlyNothingDropped =>
        \A p \in 1 .. Len(output_lines) :
            output_lines[p].line.kind = "[NOTIFY]"
                => \E q \in 1 .. p - 1 : NotifyEcho(output_lines[q].line)

\* A line of another push_output call lies between the echo and the result
\* of the n-th command line.
SplitPair(n) ==
    \E p \in LinesOf(reqs[n].echo), q \in LinesOf(reqs[n].result) :
        \E r \in 1 .. Len(output_lines) :
            /\ p < r /\ r < q
            /\ output_lines[r].call \notin {reqs[n].echo, reqs[n].result}

\* C20, as claimed: the echo and the result of one dispatch are an atomic
\* pair, no line of another thread lies between them.
C20_EchoResultAdjacent == \A n \in 1 .. Len(reqs) : ~SplitPair(n)

\* C20, amended: the echo of a POST /command dispatch precedes its result
\* in the log; the two are separate appends, and lines that other threads
\* append in between lie between them.
C20_EchoBeforeResult ==
    \A n \in 1 .. Len(reqs) :
        \A p \in LinesOf(reqs[n].echo), q \in LinesOf(reqs[n].result) : p < q

\* C20, its case: a request has been answered, and the echo of another
\* request lies between its echo and its result.
C20_Witness ==
    \E n \in 1 .. Len(reqs) :
        /\ reqs[n].status = "done"
        /\ \E p \in LinesOf(reqs[n].echo), q \in LinesOf(reqs[n].result) :
               \E r \in 1 .. Len(output_lines) :
                   /\ p < r /\ r < q
                   /\ output_lines[r].line.kind = ">"
                   /\ output_lines[r].call # reqs[n].echo

\* ------------------------------------------------- claims on the jobs

\* The lines the runner of `updatesim <pkg>` pushes, in order.
JobLines(pkg) ==
    <<Ln("Starting simulated update:", pkg), Ln("Installing", pkg),
      Ln("Finished updating", pkg)>>

IsPrefix(a, b) == Len(a) <= Len(b) /\ a = SubSeq(b, 1, Len(a))

\* C21: `updatesim <pkg>` returns its acknowledgment without waiting for the
\* job, and the job appends its three lines once each, in order, all of
\* them eventually.
C21_UpdatesimJobCompletes ==
    /\ [](\A j \in Jobs :
              pc[j] # "unborn" => IsPrefix(joblog[j], JobLines(parts[j])))
    /\ \A j \in Jobs :
           (pc[j] = "runner") ~> (joblog[j] = JobLines(parts[j]))
    /\ (pc[Client] = "cmd_updatesim" /\ Len(parts[Client]) > 1)
           ~> (/\ pc[Client] = "post_out"
               /\ Len(parts[Client]) > 1
               /\ out[Client] =
                      <<Ln("Simulated update started:", <<parts[Client][2]>>)>>)

\* C21, its case: the request was answered while its job had not appended
\* a line yet.
C21_Witness ==
    \E n \in 1 .. Len(reqs) :
        /\ reqs[n].status = "done"
        /\ Split(reqs[n].raw)[1] = "updatesim"
        /\ pc[NumWeb + n] = "runner"
        /\ joblog[NumWeb + n] = <<>>

\* ----------------------------------------------- claims on the exit sentinel

\* C22: only the `exit` command yields the result that shuts the terminal
\* loop down or that do_POST replaces by the refusal: whatever text another
\* handler returns, file content included, is an ordinary result.
C22_OnlyExitYieldsSentinel ==
    \A t \in {Term} \cup Web :
        (pc[t] \in {"term_out", "term_echoed", "post_out", "post_echoed"}
             /\ out[t] = EXIT)
            => parts[t] # <<>> /\ Lower(parts[t][1]) = "exit"

\* ------------------------------------------------- claims on the history

\* The n-th command line was not empty and has been answered.
Dispatched(n) ==
    /\ reqs[n].status = "done"
    /\ reqs[n].raw # NotAString
    /\ Split(reqs[n].raw) # <<>>

\* C23: the history is kept: once a command line that is not empty has been
\* dispatched, the result of a later `history` command holds that line.
C23_HistoryHoldsDispatchedLines ==
    (pc[Client] = "post_out" /\ parts[Client] # <<>>
         /\ Lower(parts[Client][1]) = "history")
        => \A n \in 1 .. Len(reqs) :
               (n < rid[Client] /\ Dispatched(n))
                   => \E k \in 1 .. Len(out[Client]) :
                          out[Client][k].arg = reqs[n].raw

\* ------------------------------------------------ claims on the lock order

\* C24: no thread holds output_lock and state_lock at the same time, and
\* no thread waits for one of them while it holds the other.
C24_LocksNeverNested ==
    \A t \in Threads :
        /\ ~(state_lock = t /\ output_lock = t)
        /\ WaitsFor(t) = "output_lock" => state_lock # t
        /\ WaitsFor(t) = "state_lock" => output_lock # t

\* C24, its case: both locks are held, by two threads, while a third
\* thread waits for one of them.
C24_Witness ==
    \E t, u, w \in Threads :
        /\ t # u /\ w \notin {t, u}
        /\ state_lock = t
        /\ output_lock = u
        /\ WaitsFor(w) # "none"

====
